---- MODULE Spec2Model ----
(***************************************************************************)
(* Carmel Daily Check-In: the screen-flow controller (js/app.js) and the   *)
(* storage / sync gateway (js/storage.js) as one state machine.            *)
(*                                                                         *)
(* Every handler runs to completion on the single UI thread, so a handler  *)
(* is one action.  An async function is cut at each await that waits for   *)
(* a macrotask (a fetch, a timer); an await on an already settled promise  *)
(* resumes in a microtask, before any other handler, and stays inside the  *)
(* action.                                                                 *)
(***************************************************************************)
EXTENDS Integers, Sequences, FiniteSets, TLC

\* ---------------------------------------------------------------- bounds
MaxNow == 3        \* Date.now() takes the values 1..MaxNow
MaxTimers == 1     \* auto-advance timeouts pending at once
MaxSaves == 2      \* entries ever handed to storage.save
MaxFlowSaves == 1  \* the same, where every answer of every screen is explored
MaxRandom == 2     \* Math.random() suffixes are drawn from 1..MaxRandom
MaxRuns == 1       \* syncAll() runs ever started

\* ------------------------------------------------------------ JS values
NullNum == 0 - 1   \* null in a field that otherwise holds a number
Null == "null"     \* null / undefined in a field that otherwise holds a string

\* ------------------------------------------------------------ app.state
VARIABLES
    currentScreen,   \* app.state.currentScreen
    startTime,       \* app.state.startTime
    responses,       \* app.state.responses
    activeScreen,    \* the .screen element carrying class "active"
    timers,          \* pending setTimeout(() => this.goNext(), 300) callbacks
    progress,        \* localStorage['carmel_checkin_progress']
    doneSummary,     \* what showDoneSummary put into #done-summary
    now,             \* the clock Date.now() reads
    lastOp           \* the step taken last: a handler, a branch of the load, a tick (history)

\* --------------------------------------------------------- storage state
VARIABLES
    sheetsUrl,       \* storage.config.sheetsUrl
    savedConfig,     \* localStorage['carmel_checkin_config']
    entries,         \* localStorage['carmel_checkin_entries'], parsed
    pending,         \* submit() calls suspended in storage.save at the fetch
    runs,            \* syncAll() calls in progress
    testing,         \* testConnection() calls suspended at the fetch
    saveResult,      \* what the storage.save that returned in the last step resolved to
    syncReport,      \* what the syncAll() that returned in the last step reported
    download,        \* the file downloadFile() produced in the last step
    nSaved,          \* entries ever appended by saveLocal (history)
    nRuns,           \* syncAll() runs ever started (history)
    initError        \* storage.init() of this page load ended in an uncaught exception

NoResult == [uid |-> 0]
NoReport == [msg |-> ""]
NoDownload == [kind |-> "none"]
NoSummary == [shown |-> FALSE]

appVars == <<currentScreen, startTime, responses, activeScreen, timers, progress,
            doneSummary>>
storeVars == <<sheetsUrl, savedConfig, entries, pending, runs, testing,
               nSaved, nRuns, initError>>

\* No save and no syncAll returns in this step, and no file is produced.
quiet ==
    /\ saveResult' = NoResult
    /\ syncReport' = NoReport
    /\ download' = NoDownload
vars == <<currentScreen, startTime, responses, activeScreen, timers, progress,
          now, lastOp, sheetsUrl, savedConfig, entries, pending, runs, testing,
          saveResult, syncReport, nSaved, nRuns, doneSummary, download,
          initError>>

\* ------------------------------------------------------ screens and flow
Screens == {"screen-welcome", "screen-q1", "screen-q2", "screen-q3",
            "screen-q4", "screen-q4b", "screen-q5", "screen-done"}

flow ==
    [s \in Screens |->
        CASE s = "screen-welcome" -> [next |-> "screen-q1", prev |-> Null]
          [] s = "screen-q1" -> [next |-> "screen-q2", prev |-> "screen-welcome"]
          [] s = "screen-q2" -> [next |-> "screen-q3", prev |-> "screen-q1"]
          [] s = "screen-q3" -> [next |-> "screen-q4", prev |-> "screen-q2"]
          [] s = "screen-q4" -> [next |-> "screen-q4b", prev |-> "screen-q3"]
          [] s = "screen-q4b" -> [next |-> "screen-q5", prev |-> "screen-q4"]
          [] s = "screen-q5" -> [next |-> "screen-done", prev |-> "screen-q4b"]
          [] s = "screen-done" -> [next |-> Null, prev |-> Null]]

\* The values the buttons of the question screens pass to the handlers.
Ratings == {4}
SocialChoices == {"yes_one"}
CopingChoices == {"yes_helped"}
Counts == {0, 2}
FreeTexts == {"ok"}

emptyResponses ==
    [overall_day |-> NullNum,
     academic_focus |-> NullNum,
     social_interactions |-> Null,
     dysregulation_count |-> NullNum,
     used_coping_strategy |-> Null,
     free_response |-> ""]

NoProgress == [present |-> FALSE]

\* The key holds a text that JSON.parse rejects.
MalformedProgress == [present |-> TRUE, parses |-> FALSE]

\* Mutant of saveProgress: the answers are left out of the stored session.
saveProgressNoAnswers(screenId, st, resp) ==
    [present |-> TRUE, currentScreen |-> screenId, startTime |-> st,
     responses |-> emptyResponses]

\* saveProgress(): JSON.stringify of {currentScreen, startTime, responses}.
saveProgress(screenId, st, resp) ==
    [present |-> TRUE, currentScreen |-> screenId, startTime |-> st,
     responses |-> resp]

\* showScreen(screenId) for a screen element that exists: the element becomes
\* the active one, state.currentScreen follows, and the progress is saved.
\* st and resp are state.startTime and state.responses as the caller left them.
showScreen(screenId, st, resp) ==
    /\ activeScreen' = screenId
    /\ currentScreen' = screenId
    /\ progress' = saveProgress(screenId, st, resp)

\* Mutant of goBackTarget: the special handling of q5 is missing.
goBackNoSkip(current, resp) == flow[current].prev

\* goBack(): the screen it shows, Null for none.
goBackTarget(current, resp) ==
    IF current = "screen-q5" /\ resp.dysregulation_count = 0
    THEN "screen-q4"
    ELSE flow[current].prev

\* goNext(): the screen it shows, Null for none.
goNextTarget(current, resp) ==
    IF current = "screen-q4" /\ resp.dysregulation_count = 0
    THEN "screen-q5"
    ELSE flow[current].next

\* Mutant of goNextResponses: the skip leaves used_coping_strategy alone.
goNextKeepsCoping(current, resp) == resp

\* goNext(): state.responses when it returns.
goNextResponses(current, resp) ==
    IF current = "screen-q4" /\ resp.dysregulation_count = 0
    THEN [resp EXCEPT !.used_coping_strategy = "n/a"]
    ELSE resp

goBack ==
    LET prevScreen == goBackTarget(currentScreen, responses) IN
    /\ IF prevScreen # Null
       THEN showScreen(prevScreen, startTime, responses)
       ELSE UNCHANGED <<activeScreen, currentScreen, progress>>
    /\ UNCHANGED <<startTime, responses>>

goNext ==
    LET nextScreen == goNextTarget(currentScreen, responses)
        resp == goNextResponses(currentScreen, responses) IN
    /\ responses' = resp
    /\ IF nextScreen # Null
       THEN showScreen(nextScreen, startTime, resp)
       ELSE UNCHANGED <<activeScreen, currentScreen, progress>>
    /\ UNCHANGED startTime

\* ------------------------------------------------------- flow handlers
\* restoreSelections' fieldMap: the question screen that carries the buttons
\* of each field.  A selection handler runs from a click on a button of the
\* active screen.
fieldMap ==
    [s \in {"screen-q1", "screen-q2", "screen-q3", "screen-q4", "screen-q4b"} |->
        CASE s = "screen-q1" -> "overall_day"
          [] s = "screen-q2" -> "academic_focus"
          [] s = "screen-q3" -> "social_interactions"
          [] s = "screen-q4" -> "dysregulation_count"
          [] s = "screen-q4b" -> "used_coping_strategy"]

\* What each select handler does: store the value, start the 300 ms timer.
select(field, value) ==
    /\ timers < MaxTimers
    /\ responses' = [responses EXCEPT ![field] = value]
    /\ timers' = timers + 1
    /\ UNCHANGED <<currentScreen, startTime, activeScreen, progress>>

selectRating(field, value) ==
    /\ activeScreen \in {"screen-q1", "screen-q2"}
    /\ fieldMap[activeScreen] = field
    /\ select(field, value)

selectChoice(field, value) ==
    /\ activeScreen \in {"screen-q3", "screen-q4b"}
    /\ fieldMap[activeScreen] = field
    /\ select(field, value)

selectNumber(field, value) ==
    /\ activeScreen = "screen-q4"
    /\ fieldMap[activeScreen] = field
    /\ select(field, value)

start ==
    /\ startTime' = now
    /\ showScreen("screen-q1", now, responses)
    /\ UNCHANGED <<responses, timers>>

\* Mutant of reset: the pending auto-advance timeouts are cancelled.
resetCancelsTimers ==
    /\ responses' = emptyResponses
    /\ startTime' = NullNum
    /\ showScreen("screen-welcome", NullNum, emptyResponses)
    /\ timers' = 0

\* reset(): the answers, the start time and the button selections are cleared
\* and the welcome screen is shown; no timeout is cancelled.
reset ==
    /\ responses' = emptyResponses
    /\ startTime' = NullNum
    /\ showScreen("screen-welcome", NullNum, emptyResponses)
    /\ UNCHANGED timers

Start ==
    /\ start
    /\ lastOp' = "start"
    /\ quiet
    /\ UNCHANGED <<doneSummary, now, storeVars>>

GoBack ==
    /\ goBack
    /\ lastOp' = "goBack"
    /\ quiet
    /\ UNCHANGED <<timers, doneSummary, now, storeVars>>

GoNext ==
    /\ goNext
    /\ lastOp' = "goNext"
    /\ quiet
    /\ UNCHANGED <<timers, doneSummary, now, storeVars>>

\* A pending auto-advance timeout fires: () => this.goNext().
TimerFires ==
    /\ timers > 0
    /\ timers' = timers - 1
    /\ goNext
    /\ lastOp' = "goNext"
    /\ quiet
    /\ UNCHANGED <<doneSummary, now, storeVars>>

SelectRating ==
    /\ \E field \in {"overall_day", "academic_focus"}, value \in Ratings :
          selectRating(field, value)
    /\ lastOp' = "select"
    /\ quiet
    /\ UNCHANGED <<doneSummary, now, storeVars>>

SelectChoice ==
    /\ \/ \E value \in SocialChoices : selectChoice("social_interactions", value)
       \/ \E value \in CopingChoices : selectChoice("used_coping_strategy", value)
    /\ lastOp' = "select"
    /\ quiet
    /\ UNCHANGED <<doneSummary, now, storeVars>>

SelectNumber ==
    /\ \E value \in Counts : selectNumber("dysregulation_count", value)
    /\ lastOp' = "select"
    /\ quiet
    /\ UNCHANGED <<doneSummary, now, storeVars>>

Reset ==
    /\ reset
    /\ lastOp' = "reset"
    /\ quiet
    /\ UNCHANGED <<doneSummary, now, storeVars>>

\* Time passes between two handlers.
Tick ==
    /\ now < MaxNow
    /\ now' = now + 1
    /\ lastOp' = "tick"
    /\ quiet
    /\ UNCHANGED <<appVars, storeVars>>

\* ------------------------------------------------------ storage gateway
\* storage.config.sheetsUrl as the object literal sets it.
DefaultSheetsUrl == "https://script.google.com/macros/s/AKfycbx0BHrK2r8X7K9NN5hW7q3wBVurCEyY9ZZWDw_gmaJH8j5162-8pohgNlbrJiDmMb30/exec"

\* What the user may leave in the settings field when saving, trimmed.
UserUrls == {"", "https://example.org/exec"}

NoConfig == [present |-> FALSE]

\* The configuration key holds a text that JSON.parse rejects.
MalformedConfig == [present |-> TRUE, parses |-> FALSE]

\* generateId(): 'entry_' + Date.now() + '_' + Math.random().toString(36).substr(2, 9);
\* t is the clock reading and r the random draw, and the string is one-to-one in both.
generateId(t, r) == <<t, r>>

\* The entry object submit() builds.  uid is a history tag (the number of the
\* save call that stored the entry); no handler reads it.
newEntry(id, uid, t, resp) ==
    [id |-> id, uid |-> uid, date |-> t, timestamp |-> t, responses |-> resp,
     synced |-> FALSE]

\* Mutant of saveLocal: the new entry is put in front of the stored ones.
saveLocalFirst(es, entry) == <<entry>> \o es

\* saveLocal(entry): entries.push(entry), then the array is written back.
saveLocal(es, entry) == Append(es, entry)

\* entries.findIndex(e => e.id === entryId), 1-based, 0 for -1.
findIndex(es, entryId) ==
    IF \E i \in 1..Len(es) : es[i].id = entryId
    THEN CHOOSE i \in 1..Len(es) :
            /\ es[i].id = entryId
            /\ \A j \in 1..(i - 1) : es[j].id # entryId
    ELSE 0

markAsSynced(es, entryId) ==
    LET index == findIndex(es, entryId) IN
    IF index # 0 THEN [es EXCEPT ![index].synced = TRUE] ELSE es

\* ------------------------------------------- observations (history only)
copiesOf(es, uid) == Cardinality({i \in 1..Len(es) : es[i].uid = uid})
matchesOf(es, id) == Cardinality({i \in 1..Len(es) : es[i].id = id})
flagOf(es, uid) ==
    IF \E i \in 1..Len(es) : es[i].uid = uid
    THEN (IF \E i \in 1..Len(es) : es[i].uid = uid /\ es[i].synced
          THEN "true" ELSE "false")
    ELSE "absent"

\* Another gateway operation wrote the Local Entry Store while these
\* suspended calls were waiting.
disturbed(S) == {[p EXCEPT !.alone = FALSE] : p \in S}

\* Mutant of save: the forwarding call is issued whatever the endpoint is.
saveAlwaysForwards(es, url, entry) ==
    LET es1 == saveLocal(es, entry) IN
    [entries |-> es1,
     nFetch |-> 1,
     stored |-> copiesOf(es1, entry.uid) > 0]

\* storage.save(entry) up to its first suspension: the store after saveLocal,
\* the number of fetch calls sendToSheets issued, and whether the entry was in
\* the store when the first of them was issued.
save(es, url, entry) ==
    LET es1 == saveLocal(es, entry) IN
    [entries |-> es1,
     nFetch |-> IF url # "" THEN 1 ELSE 0,
     stored |-> copiesOf(es1, entry.uid) > 0]

\* Mutant of saveReturn: the entry is marked synced although the call threw.
saveReturnMarksAlways(es, entry, threw) ==
    [entries |-> markAsSynced(es, entry.id),
     result |-> IF threw
                THEN [success |-> TRUE, synced |-> FALSE, error |-> "message"]
                ELSE [success |-> TRUE, synced |-> TRUE, error |-> Null]]

\* storage.save(entry) from the settled fetch to its return.
saveReturn(es, entry, threw) ==
    IF threw
    THEN [entries |-> es,
          result |-> [success |-> TRUE, synced |-> FALSE, error |-> "message"]]
    ELSE [entries |-> markAsSynced(es, entry.id),
          result |-> [success |-> TRUE, synced |-> TRUE, error |-> Null]]

\* storage.save(entry) with no endpoint configured: return { success, synced: false }.
saveUnconfigured == [success |-> TRUE, synced |-> FALSE, error |-> Null]

\* What saveResult keeps of a returned save: the resolved value and what the
\* store held at that moment.
observed(p, threw, result, es) ==
    [uid |-> p.entry.uid, url |-> p.url, nFetch |-> p.nFetch,
     stored |-> p.stored, threw |-> threw, alone |-> p.alone,
     cleared |-> p.cleared, result |-> result,
     copies |-> copiesOf(es, p.entry.uid),
     matches |-> matchesOf(es, p.entry.id),
     flag |-> flagOf(es, p.entry.uid)]

\* showDoneSummary's label tables, each label without its leading emoji; a key
\* the table lacks renders as itself (`labels[v] || v`).
dayLabels ==
    [v \in 1..5 |->
        CASE v = 1 -> "Really tough" [] v = 2 -> "Difficult" [] v = 3 -> "Okay"
          [] v = 4 -> "Good" [] v = 5 -> "Great"]

socialLabels ==
    [v \in {"yes_several", "yes_one", "not_really", "no_wished"} |->
        CASE v = "yes_several" -> "Several good moments"
          [] v = "yes_one" -> "At least one"
          [] v = "not_really" -> "Not really, but okay"
          [] v = "no_wished" -> "Wished I had"]

copingLabels ==
    [v \in {"yes_helped", "yes_not_much", "no"} |->
        CASE v = "yes_helped" -> "Used a strategy that helped"
          [] v = "yes_not_much" -> "Tried but didn't help much"
          [] v = "no" -> "Didn't use a strategy"]

\* A number between ${ and } of a template literal; null prints as "null".
shown(v) == IF v = NullNum THEN Null ELSE ToString(v)

\* Mutant of showDoneSummary's condition: the Coping line is always written.
copingLineAlways(r) == TRUE

\* The condition under which showDoneSummary writes the Coping line
\* (null > 0 is false).
copingLine(r) ==
    r.dysregulation_count > 0 /\ r.used_coping_strategy # "n/a"

\* showDoneSummary(entry, saveResult): what each line of the summary carries;
\* the Coping line and the Note line are sequences, empty when the line is not
\* written.  `of` is a history tag: the answers that were summarised.
showDoneSummary(entry, result) ==
    LET r == entry.responses IN
    [shown |-> TRUE,
     overall |-> IF r.overall_day \in DOMAIN dayLabels
                 THEN dayLabels[r.overall_day] ELSE shown(r.overall_day),
     focus |-> shown(r.academic_focus),
     social |-> IF r.social_interactions \in DOMAIN socialLabels
                THEN socialLabels[r.social_interactions]
                ELSE r.social_interactions,
     tough |-> shown(r.dysregulation_count),
     coping |-> IF copingLine(r)
                THEN <<IF r.used_coping_strategy \in DOMAIN copingLabels
                       THEN copingLabels[r.used_coping_strategy]
                       ELSE r.used_coping_strategy>>
                ELSE <<>>,
     note |-> IF r.free_response # "" THEN <<r.free_response>> ELSE <<>>,
     synced |-> result.synced,
     of |-> r]

\* Mutant of submitDone: clearProgress() is not called.
submitDoneKeepsProgress(entry, result) ==
    /\ doneSummary' = showDoneSummary(entry, result)
    /\ activeScreen' = "screen-done"
    /\ currentScreen' = "screen-done"
    /\ progress' = saveProgress("screen-done", startTime, responses)

\* submit() after `await storage.save(entry)`: showDoneSummary, then
\* showScreen('screen-done'), then clearProgress().
submitDone(entry, result) ==
    /\ doneSummary' = showDoneSummary(entry, result)
    /\ activeScreen' = "screen-done"
    /\ currentScreen' = "screen-done"
    /\ progress' = NoProgress

\* submitFreeResponse() then submit(), up to the suspension of submit() at
\* `await storage.save(entry)`.  Neither function looks at the current screen.
submitFreeResponse(text, r) ==
    LET resp == [responses EXCEPT !.free_response = text]
        entry == newEntry(generateId(now, r), nSaved + 1, now, resp)
        s == save(entries, sheetsUrl, entry)
        p == [entry |-> entry, url |-> sheetsUrl, nFetch |-> s.nFetch,
              stored |-> s.stored, alone |-> TRUE, cleared |-> FALSE] IN
    /\ nSaved < MaxSaves
    /\ responses' = resp
    /\ entries' = s.entries
    /\ nSaved' = nSaved + 1
    /\ runs' = disturbed(runs)
    /\ IF s.nFetch > 0
       THEN /\ pending' = disturbed(pending) \cup {p}
            /\ saveResult' = NoResult
            /\ UNCHANGED <<activeScreen, currentScreen, progress, doneSummary>>
       ELSE /\ saveResult' = observed(p, FALSE, saveUnconfigured, s.entries)
            /\ submitDone(entry, saveUnconfigured)
            /\ pending' = disturbed(pending)
    /\ syncReport' = NoReport
    /\ download' = NoDownload
    /\ UNCHANGED <<startTime, timers, sheetsUrl, savedConfig, testing, nRuns,
                   initError>>

\* submitFreeResponse() is called: the handler of the Submit button, a method
\* of the global `app` like start() and reset().  text is the trimmed content of
\* the textarea, r the random draw of generateId().
SubmitFreeResponse ==
    /\ \E text \in FreeTexts, r \in 1..MaxRandom : submitFreeResponse(text, r)
    /\ lastOp' = "submit"
    /\ UNCHANGED now

\* The condition of the keydown listener init() installs, for the Enter key.
keydownSubmits(screen) == screen = "screen-q5"

\* The user presses Enter, on whatever screen: the listener submits or does
\* nothing.
KeydownEnter ==
    /\ IF keydownSubmits(currentScreen)
       THEN \E text \in FreeTexts, r \in 1..MaxRandom : submitFreeResponse(text, r)
       ELSE /\ quiet
            /\ UNCHANGED <<appVars, storeVars>>
    /\ lastOp' = "keydown"
    /\ UNCHANGED now

\* The fetch of a suspended save settles; save returns and submit() finishes.
SubmitDone ==
    /\ \E p \in pending, threw \in BOOLEAN :
          LET s == saveReturn(entries, p.entry, threw) IN
          /\ entries' = s.entries
          /\ saveResult' = observed(p, threw, s.result, s.entries)
          /\ pending' = IF s.entries # entries
                        THEN disturbed(pending \ {p}) ELSE pending \ {p}
          /\ runs' = IF s.entries # entries THEN disturbed(runs) ELSE runs
          /\ submitDone(p.entry, s.result)
    /\ lastOp' = "submitDone"
    /\ syncReport' = NoReport
    /\ download' = NoDownload
    /\ UNCHANGED <<startTime, responses, timers, now, sheetsUrl, savedConfig,
                   testing, nSaved, nRuns,
                   initError>>

\* saveConfig(): the trimmed settings field becomes the endpoint and is persisted.
SaveConfig ==
    /\ \E url \in UserUrls :
          /\ sheetsUrl' = url
          /\ savedConfig' = [present |-> TRUE, sheetsUrl |-> url]
    /\ lastOp' = "gateway"
    /\ quiet
    /\ UNCHANGED <<appVars, now, entries, pending, runs, testing, nSaved, nRuns,
                   initError>>

\* testConnection() with an endpoint: the { test: true } ping is sent.  With an
\* empty URL it only shows a message and returns.
TestConnection ==
    /\ sheetsUrl # ""
    /\ ~testing
    /\ testing' = TRUE
    /\ lastOp' = "gateway"
    /\ quiet
    /\ UNCHANGED <<appVars, now, sheetsUrl, savedConfig, entries, pending, runs,
                   nSaved, nRuns,
                   initError>>

\* The ping settles (either way only a status message changes).
TestDone ==
    /\ testing
    /\ testing' = FALSE
    /\ lastOp' = "gateway"
    /\ quiet
    /\ UNCHANGED <<appVars, now, sheetsUrl, savedConfig, entries, pending, runs,
                   nSaved, nRuns,
                   initError>>

\* entries.filter(e => !e.synced)
unsyncedOf(es) == SelectSeq(es, LAMBDA e : ~e.synced)

\* sendToSheets(entry) as syncAll calls it for r.unsynced[i]: with no URL it
\* throws at once (counted at the catch), otherwise the fetch is in flight.
\* attempts is a history field: the entries sendToSheets was called for.
sendNext(r, i, url) ==
    IF url = ""
    THEN [r EXCEPT !.i = i, !.pc = "delay", !.failed = @ + 1, !.nThrow = @ + 1,
                   !.attempts = Append(@, r.unsynced[i].uid)]
    ELSE [r EXCEPT !.i = i, !.pc = "fetch",
                   !.attempts = Append(@, r.unsynced[i].uid)]

\* Mutant of syncMore: the loop ends at the first failed call.
syncStopsAtFailure(r) == r.i < Len(r.unsynced) /\ r.failed = 0

\* syncAll(): `for (const entry of unsynced)` has another entry to take.
syncMore(r) == r.i < Len(r.unsynced)

\* syncAll() from the settled fetch of r.unsynced[r.i] to the 200 ms delay:
\* the counters, and the store.
syncSettled(r, threw) ==
    IF threw
    THEN [r EXCEPT !.pc = "delay", !.failed = @ + 1, !.nThrow = @ + 1]
    ELSE [r EXCEPT !.pc = "delay", !.synced = @ + 1, !.nOk = @ + 1]

\* Mutant of syncMarked: the entry is marked whether or not the call threw.
syncMarkedAlways(es, r, threw) == markAsSynced(es, r.unsynced[r.i].id)

\* syncAll(): the store after the settled fetch of r.unsynced[r.i].
syncMarked(es, r, threw) ==
    IF threw THEN es ELSE markAsSynced(es, r.unsynced[r.i].id)

\* The status line syncAll() ends with, and what the store held at that moment.
report(r, es) ==
    [msg |-> IF r.failed = 0 THEN "synced" ELSE "failed",
     synced |-> r.synced, failed |-> r.failed,
     n |-> Len(r.unsynced), nOk |-> r.nOk, nThrow |-> r.nThrow,
     alone |-> r.alone,
     attempts |-> r.attempts, before |-> r.before,
     marked |-> Cardinality({k \in 1..Len(r.unsynced) :
                                flagOf(es, r.unsynced[k].uid) = "true"}),
     same |-> (es = r.before)]

\* syncAll() up to its first suspension.
SyncAll ==
    /\ nRuns < MaxRuns
    /\ IF sheetsUrl = ""
       THEN UNCHANGED <<runs, nRuns>>
       ELSE IF Len(unsyncedOf(entries)) = 0
       THEN UNCHANGED <<runs, nRuns>>
       ELSE /\ runs' = runs \cup
                  {sendNext([run |-> nRuns + 1, unsynced |-> unsyncedOf(entries),
                             i |-> 1, pc |-> "start", synced |-> 0, failed |-> 0,
                             nOk |-> 0, nThrow |-> 0, alone |-> TRUE,
                             attempts |-> <<>>, before |-> entries],
                            1, sheetsUrl)}
            /\ nRuns' = nRuns + 1
    /\ lastOp' = "gateway"
    /\ quiet
    /\ UNCHANGED <<appVars, now, sheetsUrl, savedConfig, entries, pending,
                   testing, nSaved,
                   initError>>

\* The fetch of a run settles: markAsSynced and synced++, or failed++.
SyncFetchDone ==
    /\ \E r \in runs, threw \in BOOLEAN :
          LET es == syncMarked(entries, r, threw) IN
          /\ r.pc = "fetch"
          /\ entries' = es
          /\ runs' = (IF es # entries THEN disturbed(runs \ {r}) ELSE runs \ {r})
                        \cup {syncSettled(r, threw)}
          /\ pending' = IF es # entries THEN disturbed(pending) ELSE pending
    /\ lastOp' = "gateway"
    /\ quiet
    /\ UNCHANGED <<appVars, now, sheetsUrl, savedConfig, testing, nSaved, nRuns,
                   initError>>

\* The 200 ms delay of a run ends: the next entry is sent, or the run reports.
SyncDelayDone ==
    /\ \E r \in runs :
          /\ r.pc = "delay"
          /\ IF syncMore(r)
             THEN /\ runs' = (runs \ {r}) \cup {sendNext(r, r.i + 1, sheetsUrl)}
                  /\ syncReport' = NoReport
             ELSE /\ runs' = runs \ {r}
                  /\ syncReport' = report(r, entries)
    /\ lastOp' = "gateway"
    /\ saveResult' = NoResult
    /\ download' = NoDownload
    /\ UNCHANGED <<appVars, now, sheetsUrl, savedConfig, entries, pending,
                   testing, nSaved, nRuns,
                   initError>>

\* clearLocal(): confirm(...) answered by the user.
clearLocal(es, confirmed) == IF confirmed THEN <<>> ELSE es

ClearLocal ==
    /\ \E confirmed \in BOOLEAN :
          /\ entries' = clearLocal(entries, confirmed)
          /\ IF confirmed
             THEN /\ pending' = {[p EXCEPT !.alone = FALSE, !.cleared = TRUE] :
                                    p \in pending}
                  /\ runs' = disturbed(runs)
             ELSE UNCHANGED <<pending, runs>>
    /\ lastOp' = "gateway"
    /\ quiet
    /\ UNCHANGED <<appVars, now, sheetsUrl, savedConfig, testing, nSaved, nRuns,
                   initError>>

\* -------------------------------------------------------------- export
\* A text is the sequence of its pieces; the comma, the double quote and the
\* line feed are pieces of their own.
Comma == ","
Quote == "\""
Newline == "\n"

\* What the textarea of q5 may hold at submission, trimmed.
ExportTexts == {"", "ok", "a,b", "say \"hi\"", "a\nb"}

pieces(text) ==
    CASE text = "" -> <<>>
      [] text = "a,b" -> <<"a", Comma, "b">>
      [] text = "say \"hi\"" -> <<"say ", Quote, "hi", Quote>>
      [] text = "a\nb" -> <<"a", Newline, "b">>
      [] OTHER -> <<text>>

\* Array.prototype.join(sep) over texts.
RECURSIVE join(_, _)
join(texts, sep) ==
    IF Len(texts) = 0 THEN <<>>
    ELSE IF Len(texts) = 1 THEN texts[1]
    ELSE texts[1] \o <<sep>> \o join(Tail(texts), sep)

\* text.replace(/"/g, '""')
RECURSIVE escapeQuotes(_)
escapeQuotes(text) ==
    IF Len(text) = 0 THEN <<>>
    ELSE (IF text[1] = Quote THEN <<Quote, Quote>> ELSE <<text[1]>>)
            \o escapeQuotes(Tail(text))

\* formatSocialResponse / formatCopingResponse: map[value] || value || ''
socialMap ==
    [v \in {"yes_several", "yes_one", "not_really", "no_wished"} |->
        CASE v = "yes_several" -> <<"Yes", Comma, " several good moments">>
          [] v = "yes_one" -> <<"Yes", Comma, " at least one">>
          [] v = "not_really" -> <<"Not really", Comma, " but okay">>
          [] v = "no_wished" -> <<"No", Comma, " and wished I had">>]

copingMap ==
    [v \in {"yes_helped", "yes_not_much", "no", "n/a"} |->
        CASE v = "yes_helped" -> <<"Yes", Comma, " and it helped">>
          [] v = "yes_not_much" -> <<"Yes", Comma, " but not much">>
          [] v = "no" -> <<"No">>
          [] v = "n/a" -> <<"N/A (no dysregulation)">>]

formatSocialResponse(value) ==
    IF value \in DOMAIN socialMap THEN socialMap[value]
    ELSE IF value # Null /\ value # "" THEN <<value>> ELSE <<>>

formatCopingResponse(value) ==
    IF value \in DOMAIN copingMap THEN copingMap[value]
    ELSE IF value # Null /\ value # "" THEN <<value>> ELSE <<>>

\* A number as join(',') renders it: null becomes the empty text.
numberCell(v) == IF v = NullNum THEN <<>> ELSE <<ToString(v)>>

headers ==
    <<<<"Date">>, <<"Time">>, <<"Overall Day (1-5)">>, <<"Academic Focus (1-5)">>,
      <<"Social Interactions">>, <<"Dysregulation Count">>,
      <<"Coping Strategy Used">>, <<"Notes">>, <<"Synced">>>>

\* exportCSV: the row of one entry.
csvRow(entry) ==
    <<numberCell(entry.date),
      numberCell(entry.timestamp),
      numberCell(entry.responses.overall_day),
      numberCell(entry.responses.academic_focus),
      formatSocialResponse(entry.responses.social_interactions),
      numberCell(entry.responses.dysregulation_count),
      formatCopingResponse(entry.responses.used_coping_strategy),
      <<Quote>> \o escapeQuotes(pieces(entry.responses.free_response)) \o <<Quote>>,
      IF entry.synced THEN <<"Yes">> ELSE <<"No">>>>

csvContent(es) ==
    join(<<join(headers, Comma)>>
            \o [i \in 1..Len(es) |-> join(csvRow(es[i]), Comma)], Newline)

\* Mutant of exportCSV: the empty store is exported like any other.
exportCSVAlways(es) == [kind |-> "csv", content |-> csvContent(es)]

\* exportCSV() / exportJSON(): the file handed to downloadFile, NoDownload
\* when the function returns after the alert.
exportCSV(es) ==
    IF Len(es) = 0 THEN NoDownload
    ELSE [kind |-> "csv", content |-> csvContent(es)]

exportJSON(es) ==
    IF Len(es) = 0 THEN NoDownload
    ELSE [kind |-> "json", content |-> es]

ExportCSV ==
    /\ download' = exportCSV(entries)
    /\ lastOp' = "exportCSV"
    /\ saveResult' = NoResult
    /\ syncReport' = NoReport
    /\ UNCHANGED <<appVars, now, storeVars>>

ExportJSON ==
    /\ download' = exportJSON(entries)
    /\ lastOp' = "exportJSON"
    /\ saveResult' = NoResult
    /\ syncReport' = NoReport
    /\ UNCHANGED <<appVars, now, storeVars>>

\* ------------------------------------------------------------ page load
\* The clock counts hours: loadProgress keeps a session younger than
\* 3600000 ms, one unit of `now`.
Hour == 1

\* storage.init(): JSON.parse(savedConfig) stands outside any try block, so a
\* stored text that is not JSON makes init() throw.
initThrows(saved) == saved = MalformedConfig

\* storage.init(): the endpoint after reading the persisted configuration
\* (parsed.sheetsUrl || ''), the object literal's URL when none is stored or
\* when init() threw before the assignment.
initSheetsUrl(saved) ==
    IF saved.present /\ ~initThrows(saved) THEN saved.sheetsUrl ELSE DefaultSheetsUrl

\* Mutant of restorable: the age of the session is not looked at.
restorableAnyAge(saved, t) ==
    /\ saved.present
    /\ saved # MalformedProgress
    /\ saved.startTime # NullNum
    /\ saved.startTime # 0

\* loadProgress(): whether the stored session is restored into app.state
\* (it parses, and `progress.startTime && Date.now() - progress.startTime < 3600000`).
restorable(saved, t) ==
    /\ saved.present
    /\ saved # MalformedProgress
    /\ saved.startTime # NullNum
    /\ saved.startTime # 0
    /\ t - saved.startTime < Hour

\* app.init() -> loadProgress() on a freshly constructed app object; resume is
\* the user's answer to confirm(...).
loadProgress(resume) ==
    IF restorable(progress, now)
    THEN /\ startTime' = progress.startTime
         /\ responses' = progress.responses
         /\ IF progress.currentScreen # "screen-welcome"
            THEN IF resume
                 THEN showScreen(progress.currentScreen, progress.startTime,
                                 progress.responses)
                 ELSE /\ currentScreen' = progress.currentScreen
                      /\ activeScreen' = "screen-welcome"
                      /\ progress' = NoProgress
            ELSE /\ currentScreen' = progress.currentScreen
                 /\ activeScreen' = "screen-welcome"
                 /\ UNCHANGED progress
    ELSE /\ startTime' = NullNum
         /\ responses' = emptyResponses
         /\ currentScreen' = "screen-welcome"
         /\ activeScreen' = "screen-welcome"
         /\ progress' = NoProgress

\* The branch loadProgress() takes: nothing stored ("load"), a stored session
\* removed without asking ("discard"), a session restored without asking
\* because its screen is the welcome screen ("restore"), or the answer to
\* confirm(...) ("resume", "decline").
loadBranch(resume) ==
    IF ~progress.present THEN "load"
    ELSE IF ~restorable(progress, now) THEN "discard"
    ELSE IF progress.currentScreen = "screen-welcome" THEN "restore"
    ELSE IF resume THEN "resume" ELSE "decline"

\* The page is loaded again: every pending callback dies with the old page,
\* both objects are constructed anew, and DOMContentLoaded runs storage.init()
\* and app.init() over what localStorage kept.
Reload ==
    /\ \E resume \in BOOLEAN :
          /\ loadProgress(resume)
          /\ lastOp' = loadBranch(resume)
    /\ sheetsUrl' = initSheetsUrl(savedConfig)
    /\ initError' = initThrows(savedConfig)
    /\ timers' = 0
    /\ doneSummary' = NoSummary
    /\ pending' = {}
    /\ runs' = {}
    /\ testing' = FALSE
    /\ quiet
    /\ UNCHANGED <<now, savedConfig, entries, nSaved, nRuns>>

\* Something other than saveProgress() leaves a text that is not JSON under
\* the session's key.
CorruptProgress ==
    /\ progress # MalformedProgress
    /\ progress' = MalformedProgress
    /\ lastOp' = "corrupt"
    /\ quiet
    /\ UNCHANGED <<currentScreen, startTime, responses, activeScreen, timers,
                   doneSummary, now, storeVars>>

\* Something other than saveConfig() leaves a text that is not JSON under
\* the configuration's key.
CorruptConfig ==
    /\ savedConfig # MalformedConfig
    /\ savedConfig' = MalformedConfig
    /\ lastOp' = "corrupt"
    /\ quiet
    /\ UNCHANGED <<appVars, now, sheetsUrl, entries, pending, runs, testing,
                   nSaved, nRuns, initError>>

\* The first load of the page, with nothing in localStorage.
Init ==
    /\ currentScreen = "screen-welcome"
    /\ startTime = NullNum
    /\ responses = emptyResponses
    /\ activeScreen = "screen-welcome"
    /\ timers = 0
    /\ progress = NoProgress
    /\ doneSummary = NoSummary
    /\ download = NoDownload
    /\ now = 1
    /\ lastOp = "load"
    /\ sheetsUrl = DefaultSheetsUrl
    /\ savedConfig = NoConfig
    /\ entries = <<>>
    /\ pending = {}
    /\ runs = {}
    /\ testing = FALSE
    /\ saveResult = NoResult
    /\ syncReport = NoReport
    /\ nSaved = 0
    /\ nRuns = 0
    /\ initError = FALSE

Next ==
    \/ Start
    \/ GoBack
    \/ GoNext
    \/ TimerFires
    \/ SelectRating
    \/ SelectChoice
    \/ SelectNumber
    \/ KeydownEnter
    \/ SubmitFreeResponse
    \/ SubmitDone
    \/ Reset
    \/ Reload
    \/ Tick
    \/ SaveConfig
    \/ TestConnection
    \/ TestDone
    \/ SyncAll
    \/ SyncFetchDone
    \/ SyncDelayDone
    \/ ClearLocal
    \/ ExportCSV
    \/ ExportJSON
    \/ CorruptProgress
    \/ CorruptConfig

Spec == Init /\ [][Next]_vars

\* The flow controller with the gateway left as the first load configured it:
\* the gateway's own operations, which leave app.state, the timers and the
\* stored session alone, are not taken, and a check-in is submitted the way the
\* page offers it, by Enter.  The clock stands still: two calls of generateId
\* then differ by the random draw or not at all.
NextFlow ==
    \/ Start
    \/ GoBack
    \/ GoNext
    \/ TimerFires
    \/ SelectRating
    \/ SelectChoice
    \/ SelectNumber
    \/ (nSaved < MaxFlowSaves /\ KeydownEnter)
    \/ SubmitDone
    \/ Reset
    \/ Reload

FlowSpec == Init /\ [][NextFlow]_vars

\* The gateway under every interleaving of its operations, with the flow
\* controller reduced to what moves between the screens and submits, by Enter
\* or by a call of submitFreeResponse(): no answer is selected, and the gateway
\* never reads the answers it stores.
NextGateway ==
    \/ GoNext
    \/ KeydownEnter
    \/ SubmitFreeResponse
    \/ SubmitDone
    \/ Reset
    \/ Reload
    \/ SaveConfig
    \/ TestConnection
    \/ TestDone
    \/ SyncAll
    \/ SyncFetchDone
    \/ SyncDelayDone
    \/ ClearLocal

GatewaySpec == Init /\ [][NextGateway]_vars

\* The stored session over time: the flow controller moves between the
\* screens and the count of q4 is selected, the clock advances, the session's
\* key may be overwritten with a text that is not JSON, and the page is loaded
\* again.
NextSession ==
    \/ Start
    \/ GoBack
    \/ GoNext
    \/ TimerFires
    \/ SelectNumber
    \/ Reset
    \/ Tick
    \/ CorruptProgress
    \/ Reload

SessionSpec == Init /\ [][NextSession]_vars

\* The exports over a store that holds nothing or one Entry, of any complete
\* Answer Set the buttons can produce (the coping answer being 'n/a' exactly
\* for a count of 0) and any of the free texts, synced or not.
AnswerSets ==
    {r \in [overall_day : 1..5, academic_focus : 1..5,
            social_interactions : DOMAIN socialMap,
            dysregulation_count : 0..5,
            used_coping_strategy : DOMAIN copingMap,
            free_response : ExportTexts] :
        r.dysregulation_count = 0 <=> r.used_coping_strategy = "n/a"}

InitExport ==
    /\ currentScreen = "screen-welcome"
    /\ startTime = NullNum
    /\ responses = emptyResponses
    /\ activeScreen = "screen-welcome"
    /\ timers = 0
    /\ progress = NoProgress
    /\ doneSummary = NoSummary
    /\ download = NoDownload
    /\ now = 1
    /\ lastOp = "load"
    /\ sheetsUrl = DefaultSheetsUrl
    /\ savedConfig = NoConfig
    /\ \/ entries = <<>> /\ nSaved = 0
       \/ /\ nSaved = 1
          /\ \E r \in AnswerSets, synced \in BOOLEAN :
                entries = <<[newEntry(generateId(1, 1), 1, 1, r)
                               EXCEPT !.synced = synced]>>
    /\ pending = {}
    /\ runs = {}
    /\ testing = FALSE
    /\ saveResult = NoResult
    /\ syncReport = NoReport
    /\ nRuns = 0
    /\ initError = FALSE

NextExport ==
    \/ ExportCSV
    \/ ExportJSON

ExportSpec == InitExport /\ [][NextExport]_vars

\* The flow controller where a check-in is submitted by a call of
\* submitFreeResponse(), on whatever screen; of the answers, those of q3, q4
\* and q4b are selected.
NextAnswer ==
    \/ Start
    \/ GoBack
    \/ GoNext
    \/ TimerFires
    \/ SelectChoice
    \/ SelectNumber
    \/ (nSaved < MaxFlowSaves /\ SubmitFreeResponse)
    \/ SubmitDone
    \/ Reset
    \/ Reload

AnswerSpec == Init /\ [][NextAnswer]_vars

\* The persisted configuration over time: it is saved from the settings field
\* or overwritten with a text that is not JSON, the page is loaded again, and
\* the gateway then stores, forwards, probes and syncs.  A single check-in is
\* submitted, so the store never holds two entries and no two identifiers
\* can be the same.
NextConfig ==
    \/ (nSaved < MaxFlowSaves /\ SubmitFreeResponse)
    \/ SubmitDone
    \/ SaveConfig
    \/ CorruptConfig
    \/ TestConnection
    \/ TestDone
    \/ SyncAll
    \/ SyncFetchDone
    \/ SyncDelayDone
    \/ Reload

ConfigSpec == Init /\ [][NextConfig]_vars

\* The Local Entry Store under every interleaving of the gateway operations
\* that read or write it, the exports included; a check-in is submitted by a
\* call of submitFreeResponse() and the page stays loaded.
NextStore ==
    \/ SubmitFreeResponse
    \/ SubmitDone
    \/ SaveConfig
    \/ SyncAll
    \/ SyncFetchDone
    \/ SyncDelayDone
    \/ ClearLocal
    \/ ExportCSV
    \/ ExportJSON

StoreSpec == Init /\ [][NextStore]_vars

\* One check-in session: start() is called once, on the freshly loaded page,
\* and neither reset() nor a page load follows; the user moves between the
\* screens, selects the count of q4 and presses Enter, as often as the bound
\* on saves allows.
NextSubmit ==
    \/ (startTime = NullNum /\ Start)
    \/ GoBack
    \/ GoNext
    \/ TimerFires
    \/ SelectNumber
    \/ KeydownEnter
    \/ SubmitDone

SubmitSpec == Init /\ [][NextSubmit]_vars

\* ======================================================================
\* Flow controller claims (FlowSpec)
\* ======================================================================

\* The static table of the specification, written as the order of the screens.
Order == <<"screen-welcome", "screen-q1", "screen-q2", "screen-q3", "screen-q4",
           "screen-q4b", "screen-q5", "screen-done">>
position(screen) == CHOOSE k \in 1..Len(Order) : Order[k] = screen

\* The screen after / before `screen` in the table, with screen-q4b passed over
\* when dysregulation_count is 0; `screen` itself where the table has no entry:
\* after done, before welcome, and before done, which is terminal.
tableNext(screen, dc) ==
    LET k == position(screen) IN
    IF k = Len(Order) THEN screen
    ELSE IF Order[k + 1] = "screen-q4b" /\ dc = 0 THEN Order[k + 2]
    ELSE Order[k + 1]
tablePrev(screen, dc) ==
    LET k == position(screen) IN
    IF k = 1 \/ k = Len(Order) THEN screen
    ELSE IF Order[k - 1] = "screen-q4b" /\ dc = 0 THEN Order[k - 2]
    ELSE Order[k - 1]

\* C1: every goNext() / goBack() call, manual or by the timer, moves the
\* current screen exactly to the next / previous entry of the static table
\* welcome, q1, q2, q3, q4, q4b, q5, done (staying put at either end), except
\* that with dysregulation_count = 0 it passes over q4b in both directions; and
\* no step leaves q4b the current screen while dysregulation_count = 0.
C1_FlowFollowsTable ==
    [][/\ lastOp' = "goNext" =>
             currentScreen' = tableNext(currentScreen, responses.dysregulation_count)
       /\ lastOp' = "goBack" =>
             currentScreen' = tablePrev(currentScreen, responses.dysregulation_count)
       /\ ~(currentScreen' = "screen-q4b" /\ responses'.dysregulation_count = 0)]_vars

\* C1 witness: goBack has just landed on q4 from q5, passing over q4b (the
\* forced 'n/a' shows that q5 was entered by the skip).
C1_Witness ==
    /\ lastOp = "goBack"
    /\ currentScreen = "screen-q4"
    /\ responses.dysregulation_count = 0
    /\ responses.used_coping_strategy = "n/a"

\* C2: a goNext() taken on q4 with dysregulation_count = 0, manual or by the
\* auto-advance timer, ends on q5 with used_coping_strategy = 'n/a', whatever
\* used_coping_strategy held before.
C2_SkipForcesNotApplicable ==
    [][(/\ lastOp' = "goNext"
        /\ currentScreen = "screen-q4"
        /\ responses.dysregulation_count = 0)
       => (/\ currentScreen' = "screen-q5"
           /\ responses'.used_coping_strategy = "n/a")]_vars

\* C2 witness: the skip has just been taken from q4 (the session saved by that
\* transition is the one of q5) and no timer is left pending.
C2_Witness ==
    /\ lastOp = "goNext"
    /\ currentScreen = "screen-q5"
    /\ responses.dysregulation_count = 0
    /\ responses.used_coping_strategy = "n/a"
    /\ progress.present
    /\ progress.currentScreen = "screen-q5"
    /\ timers = 0

\* C3: submit() is reachable only from q5: a step in which submit() or
\* submitFreeResponse() is invoked, by the keydown listener or directly, while
\* the current screen is not q5 adds no Entry to the Local Entry Store and
\* leaves the current screen as it is.
C3_SubmitOnlyFromQ5 ==
    [][(lastOp' \in {"keydown", "submit"} /\ currentScreen # "screen-q5") =>
          (entries' = entries /\ currentScreen' = currentScreen)]_vars

\* ======================================================================
\* Storage gateway claims (GatewaySpec)
\* ======================================================================

\* C4: when a save(entry) returns, exactly one entry of the Local Entry Store
\* carries the identifier of the saved entry, whatever the endpoint and the
\* outcome of the forwarding call were and whatever the gateway's other
\* operations did while the forwarding call was pending.
C4_ExactlyOnce ==
    saveResult.uid # 0 => saveResult.matches = 1

\* C5: the identifiers of the entries in the Local Entry Store are pairwise
\* distinct (each submit() hands save an identifier no stored entry carries).
C5_UniqueIds ==
    \A i, j \in 1..Len(entries) : i # j => entries[i].id # entries[j].id

\* C6: a syncAll() run in which no forwarding call threw, and during which no
\* other operation wrote the store, ends with every one of its N unsynced
\* entries marked synced and reports N successes and no failure.
C6_AllSucceed ==
    (syncReport.msg # "" /\ syncReport.alone /\ syncReport.nThrow = 0) =>
        /\ syncReport.synced = syncReport.n
        /\ syncReport.failed = 0
        /\ syncReport.msg = "synced"
        /\ syncReport.marked = syncReport.n

\* C7: a syncAll() run in which every forwarding call threw reports N failures
\* and no success; and, no other operation having written the store meanwhile,
\* none of its entries is marked synced and the store is what it was when the
\* run started.
C7_AllFail ==
    (syncReport.msg # "" /\ syncReport.nOk = 0) =>
        /\ syncReport.failed = syncReport.n
        /\ syncReport.synced = 0
        /\ syncReport.msg = "failed"
        /\ syncReport.alone => (syncReport.marked = 0 /\ syncReport.same)

\* C7 witness: a run over two unsynced entries has just reported, every call
\* having thrown at a configured endpoint's fetch, undisturbed.
C7_Witness ==
    /\ syncReport.msg = "failed"
    /\ syncReport.n = 2
    /\ syncReport.nOk = 0
    /\ syncReport.nThrow = 2
    /\ syncReport.alone
    /\ sheetsUrl # ""

\* C8: a save(entry) that returns, no other operation having written the
\* store meanwhile, returns success true; synced is true exactly when an
\* endpoint was configured and the forwarding call did not throw, and then the
\* stored entry's flag is true; when the call threw, synced is false, an error
\* message is carried, and the stored entry is still there with flag false.
C8_SaveResult ==
    (saveResult.uid # 0 /\ saveResult.alone) =>
        /\ saveResult.result.success
        /\ saveResult.result.synced <=> (saveResult.url # "" /\ ~saveResult.threw)
        /\ saveResult.result.synced => saveResult.flag = "true"
        /\ saveResult.threw =>
              /\ ~saveResult.result.synced
              /\ saveResult.result.error # Null
              /\ saveResult.flag = "false"

C10_LocalByDefault ==
    ~savedConfig.present =>
        /\ pending = {}
        /\ ~testing
        /\ \A r \in runs : r.pc # "fetch"

\* ======================================================================
\* Answer Set claims
\* ======================================================================

\* C11: every Entry in the Local Entry Store whose dysregulation_count is 0
\* has used_coping_strategy = 'n/a'.
C11_ZeroCountIsNotApplicable ==
    \A i \in 1..Len(entries) :
        entries[i].responses.dysregulation_count = 0 =>
            entries[i].responses.used_coping_strategy = "n/a"

\* C12: 'n/a' is only ever the result of the forced skip: on q5 and on done,
\* and in every stored Entry, a dysregulation_count above 0 comes with a
\* used_coping_strategy the user chose on q4b, never with 'n/a'.
C12_NotApplicableOnlyForced ==
    /\ (currentScreen \in {"screen-q5", "screen-done"}
        /\ responses.dysregulation_count > 0) =>
            responses.used_coping_strategy \in CopingChoices
    /\ \A i \in 1..Len(entries) :
          entries[i].responses.dysregulation_count > 0 =>
              entries[i].responses.used_coping_strategy \in CopingChoices

\* C15: the summary of a submitted Entry has no Coping line when the entry's
\* dysregulation_count is 0, and has a Coping line carrying the label of the
\* chosen strategy when dysregulation_count is above 0 and a strategy was
\* chosen on q4b (count 2 with 'yes_helped': "Used a strategy that helped").
C15_CopingLine ==
    doneSummary.shown =>
        /\ doneSummary.of.dysregulation_count = 0 => doneSummary.coping = <<>>
        /\ (/\ doneSummary.of.dysregulation_count > 0
            /\ doneSummary.of.used_coping_strategy \in DOMAIN copingLabels) =>
              doneSummary.coping = <<copingLabels[doneSummary.of.used_coping_strategy]>>
        /\ (/\ doneSummary.of.dysregulation_count = 2
            /\ doneSummary.of.used_coping_strategy = "yes_helped") =>
              doneSummary.coping = <<"Used a strategy that helped">>

\* C15 witness: a check-in with count 2 and the 'helped' choice has been
\* submitted and its summary, with the Coping line, is on the done screen.
C15_Witness ==
    /\ doneSummary.shown
    /\ currentScreen = "screen-done"
    /\ doneSummary.of.dysregulation_count = 2
    /\ doneSummary.of.used_coping_strategy = "yes_helped"
    /\ doneSummary.coping = <<"Used a strategy that helped">>
    /\ doneSummary.tough = "2"

\* ======================================================================
\* Export claims (ExportSpec)
\* ======================================================================

\* A CSV text read back as RFC 4180 reads it: the pieces between separators
\* that stand outside double quotes.
RECURSIVE splitFrom(_, _, _, _, _)
splitFrom(text, sep, i, quoted, cur) ==
    IF i > Len(text) THEN <<cur>>
    ELSE IF text[i] = Quote
         THEN splitFrom(text, sep, i + 1, ~quoted, Append(cur, text[i]))
    ELSE IF text[i] = sep /\ ~quoted
         THEN <<cur>> \o splitFrom(text, sep, i + 1, FALSE, <<>>)
    ELSE splitFrom(text, sep, i + 1, quoted, Append(cur, text[i]))
split(text, sep) == splitFrom(text, sep, 1, FALSE, <<>>)

\* C13: exportCSV() and exportJSON() called on an empty Local Entry Store
\* produce no file and leave the store as it is.
C13_EmptyExportRefused ==
    [][(lastOp' \in {"exportCSV", "exportJSON"} /\ entries = <<>>) =>
          (download' = NoDownload /\ entries' = entries)]_vars

\* C13 witness: exportJSON() has just returned on an empty store and no file
\* was produced.
C13_Witness ==
    /\ lastOp = "exportJSON"
    /\ entries = <<>>
    /\ download = NoDownload

\* C14: the CSV export of a store holding exactly one Entry has exactly two
\* lines, a header line of nine fields and a data line of exactly nine fields:
\* date, timestamp, overall_day, academic_focus, social label,
\* dysregulation_count, coping label, notes, synced, in that order.
C14_OneEntryCsv ==
    (download.kind = "csv" /\ Len(entries) = 1) =>
        LET lines == split(download.content, Newline)
            e == entries[1] IN
        /\ Len(lines) = 2
        /\ Len(split(lines[1], Comma)) = 9
        /\ split(lines[2], Comma) = csvRow(e)

\* ======================================================================
\* In-Progress Session claims
\* ======================================================================

\* C16: right after every transition made by start, goNext, goBack or an
\* accepted resume, the stored In-Progress Session exists and its screen,
\* start timestamp and answers are those of app.state.
C16_ProgressSavedOnTransition ==
    [][(\/ lastOp' \in {"start", "resume"}
        \/ (lastOp' \in {"goNext", "goBack"} /\ currentScreen' # currentScreen)) =>
          progress' = [present |-> TRUE, currentScreen |-> currentScreen',
                       startTime |-> startTime', responses |-> responses']]_vars

\* C16 witness: a session with a count of 2 has just been resumed on q4b, and
\* what is stored is what app.state holds.
C16_Witness ==
    /\ lastOp = "resume"
    /\ currentScreen = "screen-q4b"
    /\ responses.dysregulation_count = 2
    /\ progress.present
    /\ progress.currentScreen = currentScreen
    /\ progress.responses = responses
    /\ progress.startTime = startTime

\* C17: when a submit() has completed the controller is on done and no
\* In-Progress Session is stored; a page load at that point finds nothing
\* stored, offers no resume and starts on welcome.
C17_SessionDiscardedOnSubmit ==
    [][/\ saveResult'.uid # 0 =>
             (currentScreen' = "screen-done" /\ progress' = NoProgress)
       /\ (saveResult.uid # 0
           /\ lastOp' \in {"load", "discard", "restore", "resume", "decline"}) =>
             (lastOp' = "load" /\ currentScreen' = "screen-welcome")]_vars

\* C17 witness: a started check-in has just been submitted, its forwarding
\* call has settled, and nothing is left of the session.
C17_Witness ==
    /\ lastOp = "submitDone"
    /\ saveResult.uid # 0
    /\ startTime # NullNum
    /\ currentScreen = "screen-done"
    /\ progress = NoProgress

\* C18: after reset() every answer is unset (free_response empty), the start
\* timestamp is unset, the current screen is welcome, and no In-Progress
\* Session is stored.
C18_ResetDiscardsSession ==
    lastOp = "reset" =>
        /\ responses = emptyResponses
        /\ startTime = NullNum
        /\ currentScreen = "screen-welcome"
        /\ progress = NoProgress

\* C19: a page load that finds a stored session which is not JSON, or has no
\* start timestamp, or is more than one hour old, removes it without offering
\* a resume and leaves the controller on welcome.
C19_BadSessionDiscarded ==
    [][(/\ lastOp' \in {"load", "discard", "restore", "resume", "decline"}
        /\ progress.present
        /\ \/ progress = MalformedProgress
           \/ progress.startTime = NullNum
           \/ now - progress.startTime > Hour) =>
          /\ lastOp' = "discard"
          /\ progress' = NoProgress
          /\ currentScreen' = "screen-welcome"
          /\ activeScreen' = "screen-welcome"
          /\ responses' = emptyResponses]_vars

\* C19 witness: at the latest clock reading a page load has just removed a
\* stored session without asking.
C19_Witness ==
    /\ lastOp = "discard"
    /\ now = MaxNow
    /\ progress = NoProgress
    /\ currentScreen = "screen-welcome"

\* C20: at a page load with a stored session that is not expired, accepting
\* the resume puts the controller on the saved screen with the saved answers
\* and start timestamp; declining removes the stored session and leaves the
\* controller in its initial state: welcome, no answers, no start timestamp.
C20_ResumeOrDecline ==
    [][/\ lastOp' = "resume" =>
             /\ currentScreen' = progress.currentScreen
             /\ activeScreen' = progress.currentScreen
             /\ responses' = progress.responses
             /\ startTime' = progress.startTime
       /\ lastOp' = "decline" =>
             /\ progress' = NoProgress
             /\ currentScreen' = "screen-welcome"
             /\ responses' = emptyResponses
             /\ startTime' = NullNum]_vars

\* ======================================================================
\* Gateway configuration claims (ConfigSpec)
\* ======================================================================

\* The values lastOp takes at a page load, one per branch of loadProgress().
Loads == {"load", "discard", "restore", "resume", "decline"}

\* C21: a page load that finds a persisted gateway configuration which is not
\* JSON completes storage.init() without an exception and leaves the endpoint
\* URL at its default.
C21_MalformedConfigIsAbsent ==
    [][(lastOp' \in Loads /\ savedConfig = MalformedConfig) =>
          (~initError' /\ sheetsUrl' = DefaultSheetsUrl)]_vars

\* ======================================================================
\* Selection claims (FlowSpec)
\* ======================================================================

\* The field of an Answer Set is still unset (null).
unset(resp, field) ==
    IF field \in {"social_interactions", "used_coping_strategy"}
    THEN resp[field] = Null
    ELSE resp[field] = NullNum

\* C22: a goNext() on q1, q2, q3, q4 or q4b whose field is still unset leaves
\* the current screen and the Answer Set as they are, and no Entry of the
\* Local Entry Store has an unset overall_day, academic_focus,
\* social_interactions or dysregulation_count.
C22_NoAdvanceWithoutSelection ==
    [][/\ (/\ lastOp' = "goNext"
           /\ currentScreen \in DOMAIN fieldMap
           /\ unset(responses, fieldMap[currentScreen])) =>
             (currentScreen' = currentScreen /\ responses' = responses)
       /\ \A i \in 1..Len(entries') :
             \A field \in {"overall_day", "academic_focus", "social_interactions",
                            "dysregulation_count"} :
                ~unset(entries'[i].responses, field)]_vars

\* ======================================================================
\* Local Entry Store claims
\* ======================================================================

\* An entry without regard to its sync flag.
unflagged(e) == [e EXCEPT !.synced = FALSE]

\* C23: every step other than a user-confirmed clearLocal() leaves every
\* entry of the Local Entry Store in the store, at its position, with every
\* field other than the sync flag as it was.
C23_AppendOnly ==
    [][\/ (ClearLocal /\ entries' = clearLocal(entries, TRUE))
       \/ /\ Len(entries') >= Len(entries)
          /\ \A i \in 1..Len(entries) :
                unflagged(entries'[i]) = unflagged(entries[i])]_vars

\* C23 witness: a CSV export has just been made of a store of two entries,
\* the first of them flagged synced since it was stored, the second not.
C23_Witness ==
    /\ lastOp = "exportCSV"
    /\ download.kind = "csv"
    /\ Len(entries) = 2
    /\ entries[1].uid = 1 /\ entries[1].synced
    /\ entries[2].uid = 2 /\ ~entries[2].synced

\* The history tags of a sequence of entries, in order.
uidsOf(es) == [k \in 1..Len(es) |-> es[k].uid]

\* C24: a syncAll() run calls sendToSheets exactly once for each entry that
\* was unsynced in the store when the run started, in store order, whether or
\* not earlier calls threw, and for no other entry: while the run is under way
\* the calls made are those for the first entries of that list, and when it
\* reports they are those for the whole list.  A syncAll() with no endpoint
\* configured starts no run and leaves the store alone.
C24_SyncAttempts ==
    [][/\ (SyncAll /\ sheetsUrl = "") =>
             (runs' = runs /\ entries' = entries /\ pending' = pending)
       /\ \A r \in runs' :
             r.attempts = SubSeq(uidsOf(unsyncedOf(r.before)), 1, r.i)
       /\ syncReport'.msg # "" =>
             syncReport'.attempts = uidsOf(unsyncedOf(syncReport'.before))]_vars

\* C24 witness: an undisturbed run over two unsynced entries has reported:
\* the call for the first threw, and the second was tried all the same and is
\* now flagged.
C24_Witness ==
    /\ syncReport.msg = "failed"
    /\ syncReport.alone
    /\ Len(syncReport.before) = 2
    /\ syncReport.attempts = <<1, 2>>
    /\ syncReport.nThrow = 1
    /\ syncReport.nOk = 1
    /\ Len(entries) = 2
    /\ ~entries[1].synced
    /\ entries[2].synced

\* C25: an entry enters the Local Entry Store with its sync flag false; the
\* flag of a stored entry never goes from true to false; and it goes from false
\* to true only in a step in which a forwarding call for an entry with that
\* identifier, made by save or by a syncAll() run, returned without throwing.
\* No other step, of the flow or of the gateway, changes a flag.
C25_SyncFlag ==
    [][/\ \A i \in (Len(entries) + 1)..Len(entries') : ~entries'[i].synced
       /\ \A i \in 1..Len(entries) :
             i <= Len(entries') =>
                /\ entries[i].synced => entries'[i].synced
                /\ (~entries[i].synced /\ entries'[i].synced) =>
                      \/ /\ lastOp' = "submitDone"
                         /\ ~saveResult'.threw
                         /\ \E p \in pending :
                               /\ p.entry.uid = saveResult'.uid
                               /\ p.entry.id = entries[i].id
                      \/ \E r \in runs :
                            /\ r.pc = "fetch"
                            /\ r.unsynced[r.i].id = entries[i].id
                            /\ syncSettled(r, FALSE) \in runs']_vars

\* C25 witness: the forwarding call of a syncAll() run has just returned
\* without throwing and the entry it was made for is flagged, while the other
\* stored entry still is not.
C25_Witness ==
    /\ lastOp = "gateway"
    /\ Len(entries) = 2
    /\ \E r \in runs :
          /\ r.pc = "delay"
          /\ r.nOk = 1
          /\ r.i = 1
          /\ ~r.before[1].synced
          /\ entries[1].synced
          /\ ~entries[2].synced

\* ======================================================================
\* Auto-advance timer claims (SessionSpec)
\* ======================================================================

C27_DoneOnlyBySubmission ==
    currentScreen = "screen-done" =>
        \E i \in 1..Len(entries) : entries[i].responses = responses

\* C28: one check-in session yields at most one Entry: in SubmitSpec, where
\* the only session is the one start() opens, the Local Entry Store never
\* holds more than one Entry, however often the submit trigger fires.
C28_OneEntryPerSession ==
    Len(entries) <= 1

\* C29: no forwarding call returns without throwing for an entry for which
\* one has done so before: when the call of a save or of a syncAll() run
\* succeeds, the stored entry it was made for is not yet flagged synced (a
\* flag is set only after a successful call, so a set flag tells of an earlier
\* one).  Checked where a single entry is ever stored (ConfigSpec).
C29_ForwardedOnce ==
    [][/\ (lastOp' = "submitDone" /\ ~saveResult'.threw) =>
             flagOf(entries, saveResult'.uid) # "true"
       /\ \A r \in runs :
             (r.pc = "fetch" /\ syncSettled(r, FALSE) \in runs') =>
                flagOf(entries, r.unsynced[r.i].uid) # "true"]_vars

====
